---- MODULE Spec2Model ----
(***************************************************************************)
(* Model of regtech-data-validator: the check functions                    *)
(* (regtech_data_validator/check_functions.py) and the finding             *)
(* aggregation / truncation / formatting pipeline                          *)
(* (regtech_data_validator/data_formatters.py).                            *)
(*                                                                         *)
(* A cell is a string, modelled as a sequence of one-character strings.    *)
(* A lazyframe is a sequence of rows; a row is a record of cells.          *)
(***************************************************************************)
EXTENDS Integers, Sequences, FiniteSets, TLC

VARIABLES
    check,          \* the check being evaluated: its name and parameters
    data,           \* the lazyframe handed to the check: a sequence of rows
    check_results,  \* [status: "pending" | "done" | "raised", values: one boolean per row]
    error_counts,   \* distinct-record count per validation id, in sorted id order
    max_records,    \* the global record budget
    new_counts,     \* the shares being adjusted
    step,           \* iterations of the current for loop already started
    pc,             \* position in calculate_group_chunk_sizes
    df,             \* the findings handed to df_to_dicts: a sequence of rows
    max_group_size, \* the flat per-group cap: None, or <<n>> for the integer n
    total_errors_per_group, \* validation id -> cap
    truncated_group,        \* validation id -> the rows process_group_data kept
    json_results,   \* the list the groups are appended to
    todo,           \* the groups map_groups has still to hand to process_group_data
    group_order,    \* the validation ids in the order map_groups handed them over
    dpc,            \* position in df_to_dicts
    warning_count,  \* arguments of df_to_download
    error_count,
    max_errors,
    final_df,       \* the rows of the report frame
    report,         \* [returned, written]: the header line returned, the CSV file written
    wpc             \* position in df_to_download / format_findings

check_vars == <<check, data, check_results>>

alloc_vars == <<error_counts, new_counts, step, pc>>

dicts_vars == <<df, max_group_size, total_errors_per_group, truncated_group, json_results,
                todo, group_order, dpc>>

download_vars == <<warning_count, error_count, max_errors, final_df, report, wpc>>

vars == <<check, data, check_results, error_counts, max_records, new_counts, step, pc,
          df, max_group_size, total_errors_per_group, truncated_group, json_results,
          todo, group_order, dpc, warning_count, error_count, max_errors, final_df, report,
          wpc>>

\* An optional argument is None or a one-element sequence holding its value.
None == <<>>

\* `not x` for an optional integer: None and 0 are both falsy.
falsy(x) == x = None \/ x = <<0>>

\* The variables a specification does not use stay at these values.
NoCheck ==
    /\ check = [name |-> "none"]
    /\ data = <<>>
    /\ check_results = [status |-> "none", values |-> <<>>]

NoAlloc ==
    /\ error_counts = <<>>
    /\ new_counts = <<>>
    /\ step = 0
    /\ pc = "none"

NoDicts ==
    /\ df = <<>>
    /\ max_group_size = None
    /\ total_errors_per_group = <<>>
    /\ truncated_group = <<>>
    /\ json_results = <<>>
    /\ todo = {}
    /\ group_order = <<>>
    /\ dpc = "none"

\* Nothing returned and no file written.
NoReport == [returned |-> <<>>, written |-> <<>>]

NoDownload ==
    /\ warning_count = 0
    /\ error_count = 0
    /\ max_errors = 0
    /\ final_df = <<>>
    /\ report = NoReport
    /\ wpc = "none"

(***************************************************************************)
(* Bounds of the model.                                                    *)
(***************************************************************************)
MaxValues == 2        \* sub-values in a multi-value cell
MaxConditions == 2    \* conditions of an enum-pair check

(***************************************************************************)
(* Strings.                                                                *)
(***************************************************************************)
Whitespace == {" "}

\* All sequences over S of length at most n.
SeqsUpTo(S, n) == UNION {[1..k -> S] : k \in 0..n}

RECURSIVE LStrip(_)
LStrip(s) == IF s # <<>> /\ Head(s) \in Whitespace THEN LStrip(Tail(s)) ELSE s

RECURSIVE RStrip(_)
RStrip(s) ==
    IF s # <<>> /\ s[Len(s)] \in Whitespace THEN RStrip(SubSeq(s, 1, Len(s) - 1)) ELSE s

\* str.strip() / Expr.str.strip() / Expr.str.strip_chars(): both ends, whitespace.
Strip(s) == RStrip(LStrip(s))

\* str.split(sep) / Expr.str.split(sep): never empty, "" splits to [""].
RECURSIVE SplitFrom(_, _, _)
SplitFrom(s, sep, cur) ==
    IF s = <<>> THEN <<cur>>
    ELSE IF Head(s) = sep THEN <<cur>> \o SplitFrom(Tail(s), sep, <<>>)
    ELSE SplitFrom(Tail(s), sep, Append(cur, Head(s)))

Split(s, sep) == SplitFrom(s, sep, <<>>)

\* sep.join(parts)
RECURSIVE Join(_, _)
Join(parts, sep) ==
    IF parts = <<>> THEN <<>>
    ELSE IF Len(parts) = 1 THEN parts[1]
    ELSE parts[1] \o <<sep>> \o Join(Tail(parts), sep)

Range(f) == {f[x] : x \in DOMAIN f}

Pending == [status |-> "pending", values |-> <<>>]
Done(values) == [status |-> "done", values |-> values]
Raised == [status |-> "raised", values |-> <<>>]

(***************************************************************************)
(* has_valid_enum_pair                                                     *)
(***************************************************************************)
Tokens == {<<"1">>, <<"2">>, <<>>}

\* Multi-value cells: up to MaxValues sub-values joined by the separator.
MultiCells == {Join(ts, ";") : ts \in SeqsUpTo(Tokens, MaxValues)}

EnumPairTargetCells == {<<>>, <<"1">>, <<"2">>, <<" ", "1">>}

EnumPairConditions ==
    [condition_values : {{<<"1">>}, {<<"1">>, <<"2">>}},
     is_equal_condition : BOOLEAN,
     target_value : {<<"1">>},
     should_equal_target : BOOLEAN]

\* The membership test of check_condition: the split related cell against
\* condition_values, by list.set_intersection(...).list.lengths().
condition_check(condition, related) ==
    LET check_values == Range(Split(related, ";"))
        n == Cardinality(check_values \cap condition.condition_values)
    IN  IF condition.is_equal_condition THEN n > 0 ELSE n = 0

\* target_operator(target_values, target_value)
target_relation(condition, target) ==
    IF condition.should_equal_target
    THEN Strip(target) = condition.target_value
    ELSE Strip(target) # condition.target_value

\* pl.when(check).then(target_operator(...)).otherwise(True)
check_condition(condition, related, target) ==
    IF condition_check(condition, related)
    THEN target_relation(condition, target)
    ELSE TRUE

\* check_results = pl.lit(True); for condition: check_results = check_results & check
has_valid_enum_pair(conditions, row) ==
    \A k \in DOMAIN conditions : check_condition(conditions[k], row.related, row.target)

InitEnumPair ==
    /\ check \in [name : {"has_valid_enum_pair"},
                  conditions : SeqsUpTo(EnumPairConditions, MaxConditions)]
    /\ data \in [1..1 -> [related : MultiCells, target : EnumPairTargetCells]]
    /\ check_results = Pending
    /\ NoAlloc
    /\ max_records = 0
    /\ NoDicts
    /\ NoDownload

EvalEnumPair ==
    /\ check.name = "has_valid_enum_pair"
    /\ check_results.status = "pending"
    /\ check_results' = Done([r \in DOMAIN data |-> has_valid_enum_pair(check.conditions, data[r])])
    /\ UNCHANGED <<check, data, max_records>>
    /\ UNCHANGED alloc_vars
    /\ UNCHANGED dicts_vars
    /\ UNCHANGED download_vars

SpecEnumPair == InitEnumPair /\ [][EvalEnumPair]_vars

\* The conditions of the list that match the row, in declaration order.
MatchingConditions(conditions, row) ==
    {k \in DOMAIN conditions : condition_check(conditions[k], row.related)}

FirstMatch(conditions, row) ==
    CHOOSE k \in MatchingConditions(conditions, row) :
        \A j \in MatchingConditions(conditions, row) : k <= j

\* C1: has_valid_enum_pair is first-match-wins: a row's result is the target
\* relation of the first condition, in declaration order, whose membership test
\* matches the related cell (pass when none matches); later conditions have no
\* effect on the result.
C1_FirstMatchWins ==
    check.name = "has_valid_enum_pair" /\ check_results.status = "done" =>
        \A r \in DOMAIN data :
            check_results.values[r] =
                IF MatchingConditions(check.conditions, data[r]) = {} THEN TRUE
                ELSE target_relation(check.conditions[FirstMatch(check.conditions, data[r])],
                                     data[r].target)

\* The condition matches the related cell as the membership mode reads: the
\* cell's value set is a subset of condition_values, or disjoint from them.
SubsetOrDisjoint(condition, related) ==
    LET check_values == Range(Split(related, ";"))
    IN  IF condition.is_equal_condition
        THEN check_values \subseteq condition.condition_values
        ELSE check_values \cap condition.condition_values = {}

\* C19: a condition with is_equal_condition true matches a row iff the
\* related column's value set is a subset of condition_values, and one with
\* is_equal_condition false iff it is disjoint from them; seen on checks of
\* one condition, where the row's result is the target relation when the
\* condition matches and a pass when it does not.
C19_MembershipModes ==
    /\ check.name = "has_valid_enum_pair"
    /\ check_results.status = "done"
    /\ Len(check.conditions) = 1
    => \A r \in DOMAIN data :
          check_results.values[r] =
              IF SubsetOrDisjoint(check.conditions[1], data[r].related)
              THEN target_relation(check.conditions[1], data[r].target)
              ELSE TRUE

(***************************************************************************)
(* has_no_conditional_field_conflict                                       *)
(***************************************************************************)
MaxTargetLen == 2     \* characters of a free-form target cell

FreeFormCells == SeqsUpTo({"1", " "}, MaxTargetLen)

\* check_col: the related cell holds none of condition_values.
\* val_col: the target cell is empty once stripped.
\* The row passes when check_col ^ val_col is false.
has_no_conditional_field_conflict_unstripped(condition_values, row) ==
    LET check_col == Cardinality(Range(Split(row.related, ";")) \cap condition_values) = 0
        val_col == Len(row.target) = 0
    IN  ~(check_col # val_col)

has_no_conditional_field_conflict(condition_values, row) ==
    LET check_col == Cardinality(Range(Split(row.related, ";")) \cap condition_values) = 0
        val_col == Len(Strip(row.target)) = 0
    IN  ~(check_col # val_col)

InitConflict ==
    /\ check \in [name : {"has_no_conditional_field_conflict"},
                  condition_values : SUBSET Tokens]
    /\ data \in [1..1 -> [related : MultiCells, target : FreeFormCells]]
    /\ check_results = Pending
    /\ NoAlloc
    /\ max_records = 0
    /\ NoDicts
    /\ NoDownload

EvalConflict ==
    /\ check.name = "has_no_conditional_field_conflict"
    /\ check_results.status = "pending"
    /\ check_results' =
          Done([r \in DOMAIN data |-> has_no_conditional_field_conflict(check.condition_values, data[r])])
    /\ UNCHANGED <<check, data, max_records>>
    /\ UNCHANGED alloc_vars
    /\ UNCHANGED dicts_vars
    /\ UNCHANGED download_vars

SpecConflict == InitConflict /\ [][EvalConflict]_vars

\* A cell is blank when it is empty or holds whitespace only.
IsBlank(cell) == \A k \in DOMAIN cell : cell[k] \in Whitespace

\* Some separator-split sub-value of the cell is one of the values.
Intersects(cell, values) == \E k \in DOMAIN Split(cell, ";") : Split(cell, ";")[k] \in values

\* C5: has_no_conditional_field_conflict passes a row iff the related cell's
\* sub-values intersect condition_values and the target is non-blank, or they do
\* not intersect and the target is blank.
C5_ConditionalFieldConflict ==
    check.name = "has_no_conditional_field_conflict" /\ check_results.status = "done" =>
        \A r \in DOMAIN data :
            check_results.values[r] <=>
                \/ Intersects(data[r].related, check.condition_values) /\ ~IsBlank(data[r].target)
                \/ ~Intersects(data[r].related, check.condition_values) /\ IsBlank(data[r].target)

\* The trigger is one of two sub-values, the target is blank, and the row fails.
C5_Witness ==
    /\ check.name = "has_no_conditional_field_conflict"
    /\ check_results.status = "done"
    /\ check.condition_values = {<<"1">>}
    /\ data[1].related = <<"2", ";", "1">>
    /\ data[1].target = <<" ">>
    /\ check_results.values[1] = FALSE

(***************************************************************************)
(* has_valid_fieldset_pair                                                 *)
(***************************************************************************)
MaxFieldset == 2      \* dependent columns of a fieldset

FieldsetCells == {<<>>, <<"1">>, <<"2">>}

\* check_fieldset_expression: one dependent column against its literal.
check_fieldset_expression(condition, row) ==
    IF condition.must_equal
    THEN row.fields[condition.field] = condition.target_value
    ELSE row.fields[condition.field] # condition.target_value

\* conditions[0] | conditions[1] | ... : the constraints joined by OR.
combinded_conditions_any(should_fieldset_key_equal_to, row) ==
    \E k \in DOMAIN should_fieldset_key_equal_to :
        check_fieldset_expression(should_fieldset_key_equal_to[k], row)

\* conditions[0] & conditions[1] & ...
combinded_conditions(should_fieldset_key_equal_to, row) ==
    \A k \in DOMAIN should_fieldset_key_equal_to :
        check_fieldset_expression(should_fieldset_key_equal_to[k], row)

\* pl.when(~key.is_in(condition_values)).then(True).when(combined).then(True).otherwise(False)
has_valid_fieldset_pair(condition_values, should_fieldset_key_equal_to, row) ==
    IF row.key \notin condition_values THEN TRUE
    ELSE IF combinded_conditions(should_fieldset_key_equal_to, row) THEN TRUE
    ELSE FALSE

\* should_fieldset_key_equal_to for n dependent columns, in dictionary order:
\* column k carries (k, must_equal, target_value).
FieldsetConditions(n) ==
    {c \in [1..n -> [field : 1..n, must_equal : BOOLEAN, target_value : {<<>>, <<"1">>}]] :
        \A k \in 1..n : c[k].field = k}

InitFieldset ==
    \E n \in 1..MaxFieldset :
        /\ check \in [name : {"has_valid_fieldset_pair"},
                      condition_values : SUBSET {<<"1">>, <<"2">>},
                      should_fieldset_key_equal_to : FieldsetConditions(n)]
        /\ data \in [1..1 -> [key : FieldsetCells, fields : [1..n -> FieldsetCells]]]
        /\ check_results = Pending
    /\ NoAlloc
    /\ max_records = 0
    /\ NoDicts
    /\ NoDownload

EvalFieldset ==
    /\ check.name = "has_valid_fieldset_pair"
    /\ check_results.status = "pending"
    /\ check_results' =
          Done([r \in DOMAIN data |->
                  has_valid_fieldset_pair(check.condition_values,
                                          check.should_fieldset_key_equal_to, data[r])])
    /\ UNCHANGED <<check, data, max_records>>
    /\ UNCHANGED alloc_vars
    /\ UNCHANGED dicts_vars
    /\ UNCHANGED download_vars

SpecFieldset == InitFieldset /\ [][EvalFieldset]_vars

\* The dependent column satisfies its own constraint.
SatisfiesConstraint(c, row) ==
    (c.must_equal /\ row.fields[c.field] = c.target_value)
        \/ (~c.must_equal /\ row.fields[c.field] # c.target_value)

\* C6: has_valid_fieldset_pair passes every row whose primary value is not in
\* condition_values; a row whose primary value is in condition_values passes iff
\* every dependent column satisfies its own constraint.
C6_FieldsetPair ==
    check.name = "has_valid_fieldset_pair" /\ check_results.status = "done" =>
        \A r \in DOMAIN data :
            /\ data[r].key \notin check.condition_values => check_results.values[r]
            /\ data[r].key \in check.condition_values =>
                  (check_results.values[r] <=>
                      \A k \in DOMAIN check.should_fieldset_key_equal_to :
                          SatisfiesConstraint(check.should_fieldset_key_equal_to[k], data[r]))

\* The primary value triggers the check, one of two dependent columns meets its
\* constraint and the other does not, and the row fails.
C6_Witness ==
    /\ check.name = "has_valid_fieldset_pair"
    /\ check_results.status = "done"
    /\ Len(check.should_fieldset_key_equal_to) = 2
    /\ data[1].key \in check.condition_values
    /\ SatisfiesConstraint(check.should_fieldset_key_equal_to[1], data[1])
    /\ ~SatisfiesConstraint(check.should_fieldset_key_equal_to[2], data[1])
    /\ check_results.values[1] = FALSE

(***************************************************************************)
(* Value-level evaluators taking accept_blank.                             *)
(***************************************************************************)
MaxCellLen == 2       \* characters of a value cell

Digits == {"1", "2"}

ValueCells == SeqsUpTo({"1", "2", ".", "x", " "}, MaxCellLen)

\* The text float() and int() convert: surrounding whitespace is ignored.
NumberText(s) == Strip(s)

DotCount(t) == Cardinality({k \in DOMAIN t : t[k] = "."})

\* float(s) returns a number (over the characters of ValueCells: digits with
\* at most one decimal point and at least one digit); otherwise ValueError.
FloatParses(s) ==
    LET t == NumberText(s)
    IN  /\ \A k \in DOMAIN t : t[k] \in Digits \cup {"."}
        /\ DotCount(t) <= 1
        /\ \E k \in DOMAIN t : t[k] \in Digits

\* int(s) returns a number; otherwise ValueError.
IntParses(s) ==
    LET t == NumberText(s)
    IN  t # <<>> /\ \A k \in DOMAIN t : t[k] \in Digits

DigitValue(c) == IF c = "1" THEN 1 ELSE 2

RECURSIVE Pow10(_)
Pow10(n) == IF n = 0 THEN 1 ELSE 10 * Pow10(n - 1)

RECURSIVE Mantissa(_)
Mantissa(t) ==
    IF t = <<>> THEN 0
    ELSE IF t[Len(t)] = "." THEN Mantissa(SubSeq(t, 1, Len(t) - 1))
    ELSE 10 * Mantissa(SubSeq(t, 1, Len(t) - 1)) + DigitValue(t[Len(t)])

\* Digits after the decimal point.
Scale(t) ==
    IF DotCount(t) = 0 THEN 0
    ELSE Len(t) - (CHOOSE k \in DOMAIN t : t[k] = ".")

\* float(s) as an exact decimal: mantissa / 10^scale.
FloatOf(s) == [m |-> Mantissa(NumberText(s)), e |-> Scale(NumberText(s))]

FloatLt(a, b) == a.m * Pow10(b.e) < b.m * Pow10(a.e)
FloatLe(a, b) == a.m * Pow10(b.e) <= b.m * Pow10(a.e)

\* operator.gt / operator.ge / operator.lt on two floats.
Operand(op, a, b) ==
    CASE op = "gt" -> FloatLt(b, a)
      [] op = "ge" -> FloatLe(b, a)
      [] op = "lt" -> FloatLt(a, b)

\* return accept_blank and check_result
_check_blank_and(value, check_result, accept_blank) ==
    LET is_blank == Strip(value) = <<>>
    IN  IF is_blank THEN accept_blank /\ check_result ELSE check_result

_check_blank_(value, check_result, accept_blank) ==
    LET is_blank == Strip(value) = <<>>
    IN  IF is_blank THEN accept_blank ELSE check_result

\* The outcome of an element-wise check function on one cell: the boolean it
\* returns, or the ValueError that leaves it.
Returns(b) == [raised |-> FALSE, value |-> b]
ValueError == [raised |-> TRUE, value |-> FALSE]

comparison_helper(value, limit, accept_blank, operand) ==
    IF Strip(value) = <<>> /\ ~accept_blank THEN Returns(FALSE)
    ELSE IF Strip(value) = <<>> /\ accept_blank THEN Returns(TRUE)
    ELSE IF ~FloatParses(value) \/ ~FloatParses(limit) THEN ValueError
    ELSE Returns(Operand(operand, FloatOf(value), FloatOf(limit)))

is_greater_than_or_equal_to(value, min_value, accept_blank) ==
    comparison_helper(value, min_value, accept_blank, "ge")

is_greater_than(value, min_value, accept_blank) ==
    comparison_helper(value, min_value, accept_blank, "gt")

is_less_than(value, max_value, accept_blank) ==
    comparison_helper(value, max_value, accept_blank, "lt")

\* try: num_parser(ct_value) except ValueError: value_check = False
is_number(ct_value, accept_blank, is_whole) ==
    LET value_check == IF is_whole THEN IntParses(ct_value) ELSE FloatParses(ct_value)
    IN  Returns(_check_blank_(ct_value, value_check, accept_blank))

has_correct_length(ct_value, accepted_length, accept_blank) ==
    LET value_check == Len(ct_value) = accepted_length
    IN  Returns(_check_blank_(ct_value, value_check, accept_blank))

is_valid_code(ct_value, accept_blank, codes) ==
    LET key_check == ct_value \in codes
    IN  Returns(_check_blank_(ct_value, key_check, accept_blank))

\* ((col.str.strip() == "") & accept_blank)
\*     | (col.str.split(separator).list.set_difference(accepted_values).list.len() == 0)
is_valid_enum(value, accepted_values, accept_blank) ==
    \/ Strip(value) = <<>> /\ accept_blank
    \/ Cardinality(Range(Split(value, ";")) \ accepted_values) = 0

\* Expr.str.contains(regex) for the patterns of Regexes.
RegexContains(regex, value) ==
    CASE regex = "^[12]+$" -> value # <<>> /\ \A k \in DOMAIN value : value[k] \in Digits
      [] regex = "x" -> \E k \in DOMAIN value : value[k] = "x"
      [] regex = "^$" -> value = <<>>

Regexes == {"^[12]+$", "x", "^$"}

\* ((col.str.strip() == "") & accept_blank) | col.str.contains(regex)
has_valid_format(value, regex, accept_blank) ==
    \/ Strip(value) = <<>> /\ accept_blank
    \/ RegexContains(regex, value)

\* An element-wise check over the column: any ValueError aborts the validation.
ElementWise(outcomes) ==
    IF \E r \in DOMAIN outcomes : outcomes[r].raised THEN Raised
    ELSE Done([r \in DOMAIN outcomes |-> outcomes[r].value])

Limits == {<<"1">>, <<"1", ".", "2">>, <<"x">>}

ComparisonChecks == {"is_greater_than", "is_greater_than_or_equal_to", "is_less_than"}

InitValue ==
    /\ \/ check \in [name : {"is_number"}, accept_blank : BOOLEAN, is_whole : BOOLEAN]
       \/ check \in [name : {"has_correct_length"}, accept_blank : BOOLEAN,
                     accepted_length : 0..MaxCellLen]
       \/ check \in [name : {"is_valid_code"}, accept_blank : BOOLEAN,
                     codes : SUBSET {<<>>, <<"1">>, <<"x">>}]
       \/ check \in [name : ComparisonChecks, accept_blank : BOOLEAN, limit : Limits]
       \/ check \in [name : {"is_valid_enum"}, accept_blank : BOOLEAN,
                     accepted_values : SUBSET {<<"1">>, <<"2">>}]
       \/ check \in [name : {"has_valid_format"}, accept_blank : BOOLEAN, regex : Regexes]
    /\ data \in [1..1 -> [value : ValueCells]]
    /\ check_results = Pending
    /\ NoAlloc
    /\ max_records = 0
    /\ NoDicts
    /\ NoDownload

EvalIsNumber ==
    /\ check.name = "is_number"
    /\ check_results.status = "pending"
    /\ check_results' =
          ElementWise([r \in DOMAIN data |->
              is_number(data[r].value, check.accept_blank, check.is_whole)])
    /\ UNCHANGED <<check, data, max_records>>
    /\ UNCHANGED alloc_vars
    /\ UNCHANGED dicts_vars
    /\ UNCHANGED download_vars

EvalHasCorrectLength ==
    /\ check.name = "has_correct_length"
    /\ check_results.status = "pending"
    /\ check_results' =
          ElementWise([r \in DOMAIN data |->
              has_correct_length(data[r].value, check.accepted_length, check.accept_blank)])
    /\ UNCHANGED <<check, data, max_records>>
    /\ UNCHANGED alloc_vars
    /\ UNCHANGED dicts_vars
    /\ UNCHANGED download_vars

EvalIsValidCode ==
    /\ check.name = "is_valid_code"
    /\ check_results.status = "pending"
    /\ check_results' =
          ElementWise([r \in DOMAIN data |->
              is_valid_code(data[r].value, check.accept_blank, check.codes)])
    /\ UNCHANGED <<check, data, max_records>>
    /\ UNCHANGED alloc_vars
    /\ UNCHANGED dicts_vars
    /\ UNCHANGED download_vars

EvalIsGreaterThan ==
    /\ check.name = "is_greater_than"
    /\ check_results.status = "pending"
    /\ check_results' =
          ElementWise([r \in DOMAIN data |->
              is_greater_than(data[r].value, check.limit, check.accept_blank)])
    /\ UNCHANGED <<check, data, max_records>>
    /\ UNCHANGED alloc_vars
    /\ UNCHANGED dicts_vars
    /\ UNCHANGED download_vars

EvalIsGreaterThanOrEqualTo ==
    /\ check.name = "is_greater_than_or_equal_to"
    /\ check_results.status = "pending"
    /\ check_results' =
          ElementWise([r \in DOMAIN data |->
              is_greater_than_or_equal_to(data[r].value, check.limit, check.accept_blank)])
    /\ UNCHANGED <<check, data, max_records>>
    /\ UNCHANGED alloc_vars
    /\ UNCHANGED dicts_vars
    /\ UNCHANGED download_vars

EvalIsLessThan ==
    /\ check.name = "is_less_than"
    /\ check_results.status = "pending"
    /\ check_results' =
          ElementWise([r \in DOMAIN data |->
              is_less_than(data[r].value, check.limit, check.accept_blank)])
    /\ UNCHANGED <<check, data, max_records>>
    /\ UNCHANGED alloc_vars
    /\ UNCHANGED dicts_vars
    /\ UNCHANGED download_vars

EvalIsValidEnum ==
    /\ check.name = "is_valid_enum"
    /\ check_results.status = "pending"
    /\ check_results' =
          Done([r \in DOMAIN data |->
              is_valid_enum(data[r].value, check.accepted_values, check.accept_blank)])
    /\ UNCHANGED <<check, data, max_records>>
    /\ UNCHANGED alloc_vars
    /\ UNCHANGED dicts_vars
    /\ UNCHANGED download_vars

EvalHasValidFormat ==
    /\ check.name = "has_valid_format"
    /\ check_results.status = "pending"
    /\ check_results' =
          Done([r \in DOMAIN data |->
              has_valid_format(data[r].value, check.regex, check.accept_blank)])
    /\ UNCHANGED <<check, data, max_records>>
    /\ UNCHANGED alloc_vars
    /\ UNCHANGED dicts_vars
    /\ UNCHANGED download_vars

NextValue ==
    \/ EvalIsNumber
    \/ EvalHasCorrectLength
    \/ EvalIsValidCode
    \/ EvalIsGreaterThan
    \/ EvalIsGreaterThanOrEqualTo
    \/ EvalIsLessThan
    \/ EvalIsValidEnum
    \/ EvalHasValidFormat

SpecValue == InitValue /\ [][NextValue]_vars

AcceptBlankChecks ==
    {"is_number", "has_correct_length", "is_valid_code", "is_valid_enum", "has_valid_format"}
        \cup ComparisonChecks

\* C7: for every value-level evaluator taking accept_blank, a blank cell passes
\* when accept_blank is true, whatever the other parameters are.
C7_AcceptBlank ==
    check.name \in AcceptBlankChecks /\ check_results.status # "pending" =>
        /\ (\E r \in DOMAIN data : check.accept_blank /\ IsBlank(data[r].value))
              => check_results.status = "done"
        /\ \A r \in DOMAIN data :
              check.accept_blank /\ IsBlank(data[r].value) => check_results.values[r]

\* A whitespace-only cell passes a comparison against a limit that would fail
\* any number (and could not be parsed).
C7_Witness ==
    /\ check.name = "is_less_than"
    /\ check.accept_blank
    /\ check.limit = <<"x">>
    /\ data[1].value = <<" ", " ">>
    /\ check_results = Done(<<TRUE>>)

\* C8: the numeric comparison evaluators resolve a non-blank cell that is not
\* a number to false, for either value of accept_blank, and raise nothing.
C8_ComparisonNeverRaises ==
    check.name \in ComparisonChecks /\ check_results.status # "pending" =>
        /\ check_results.status = "done"
        /\ \A r \in DOMAIN data :
              ~IsBlank(data[r].value) /\ ~FloatParses(data[r].value)
                  => check_results.values[r] = FALSE

(***************************************************************************)
(* Relational date evaluators.                                             *)
(***************************************************************************)
MaxRows == 2          \* rows of a lazyframe

DigitChars == <<"0", "1", "2", "3", "4", "5", "6", "7", "8", "9">>

IsDigit(c) == \E k \in DOMAIN DigitChars : DigitChars[k] = c

DigitOf(c) == (CHOOSE k \in DOMAIN DigitChars : DigitChars[k] = c) - 1

\* The number written by the digits s[a..b].
RECURSIVE NumberAt(_, _, _)
NumberAt(s, a, b) == IF b < a THEN 0 ELSE 10 * NumberAt(s, a, b - 1) + DigitOf(s[b])

AllDigits(s, a, b) == \A k \in a..b : k \in DOMAIN s /\ IsDigit(s[k])

IsLeap(y) == (y % 4 = 0 /\ y % 100 # 0) \/ y % 400 = 0

DaysInMonth(y, m) ==
    IF m = 2 THEN (IF IsLeap(y) THEN 29 ELSE 28)
    ELSE IF m \in {4, 6, 9, 11} THEN 30 ELSE 31

RECURSIVE DaysBeforeMonth(_, _)
DaysBeforeMonth(y, m) == IF m <= 1 THEN 0 ELSE DaysBeforeMonth(y, m - 1) + DaysInMonth(y, m - 1)

\* Proleptic Gregorian ordinal of a calendar date (date.toordinal()).
Ordinal(y, m, d) ==
    365 * (y - 1) + ((y - 1) \div 4) - ((y - 1) \div 100) + ((y - 1) \div 400)
        + DaysBeforeMonth(y, m) + d

NoDate == [ok |-> FALSE, ordinal |-> 0]

\* The date year-month-day, when the calendar has it.
CivilDate(y, m, d, min_year) ==
    IF y >= min_year /\ m \in 1..12 /\ d \in 1..DaysInMonth(y, m)
    THEN [ok |-> TRUE, ordinal |-> Ordinal(y, m, d)]
    ELSE NoDate

\* Expr.str.strptime(pl.Date, "%Y%m%d") on one cell: %Y takes up to four
\* digits, %m and %d up to two each, left to right without backtracking, and
\* the whole cell must be consumed.
PolarsDate(s) ==
    IF Len(s) \in {7, 8} /\ AllDigits(s, 1, Len(s))
    THEN CivilDate(NumberAt(s, 1, 4), NumberAt(s, 5, 6), NumberAt(s, 7, Len(s)), 0)
    ELSE NoDate

\* The end positions datetime.strptime's pattern allows for %m starting at p:
\* 1[0-2] | 0[1-9] | [1-9], in that order.
MonthEnds(s, p) ==
    (IF AllDigits(s, p, p + 1) /\ NumberAt(s, p, p + 1) \in 1..12 THEN <<p + 1>> ELSE <<>>)
        \o (IF AllDigits(s, p, p) /\ DigitOf(s[p]) # 0 THEN <<p>> ELSE <<>>)

\* The same for %d: 3[01] | [12]\d | 0[1-9] | [1-9] | " "[1-9].
DayEnds(s, p) ==
    (IF AllDigits(s, p, p + 1) /\ NumberAt(s, p, p + 1) \in 1..31 THEN <<p + 1>> ELSE <<>>)
        \o (IF AllDigits(s, p, p) /\ DigitOf(s[p]) # 0 THEN <<p>> ELSE <<>>)
        \o (IF p + 1 \in DOMAIN s /\ s[p] = " " /\ AllDigits(s, p + 1, p + 1)
                  /\ DigitOf(s[p + 1]) # 0
            THEN <<p + 1>> ELSE <<>>)

\* datetime.strptime(s, "%Y%m%d"): the first way, in the pattern's order of
\* alternatives, to match a prefix of s; ValueError (NoDate) when none matches,
\* when characters remain after the match, or when the calendar has no such day.
PythonDate(s) ==
    IF ~AllDigits(s, 1, 4) THEN NoDate
    ELSE LET ms == MonthEnds(s, 5)
             mi == IF \E k \in DOMAIN ms : DayEnds(s, ms[k] + 1) # <<>>
                   THEN CHOOSE k \in DOMAIN ms :
                            /\ DayEnds(s, ms[k] + 1) # <<>>
                            /\ \A j \in DOMAIN ms : DayEnds(s, ms[j] + 1) # <<>> => k <= j
                   ELSE 0
         IN  IF mi = 0 THEN NoDate
             ELSE LET me == ms[mi]
                      de == DayEnds(s, me + 1)[1]
                      day_from == IF s[me + 1] = " " THEN me + 2 ELSE me + 1
                  IN  IF de # Len(s) THEN NoDate
                      ELSE CivilDate(NumberAt(s, 1, 4), NumberAt(s, 5, me),
                                     NumberAt(s, day_from, de), 1)

\* strptime with the default strict=True raises when any cell of the column
\* does not convert.
ColumnConverts(column) == \A r \in DOMAIN column : PolarsDate(column[r]).ok

\* check_date_tmp <= v_date_tmp
is_date_after(rows) ==
    IF ~ColumnConverts([r \in DOMAIN rows |-> rows[r].related])
          \/ ~ColumnConverts([r \in DOMAIN rows |-> rows[r].target])
    THEN Raised
    ELSE Done([r \in DOMAIN rows |->
                 PolarsDate(rows[r].related).ordinal <= PolarsDate(rows[r].target).ordinal])

\* (v_date_tmp - check_date_tmp).dt.days() < days_value
is_date_before_in_days(rows, days_value) ==
    IF ~ColumnConverts([r \in DOMAIN rows |-> rows[r].related])
          \/ ~ColumnConverts([r \in DOMAIN rows |-> rows[r].target])
    THEN Raised
    ELSE Done([r \in DOMAIN rows |->
                 PolarsDate(rows[r].target).ordinal - PolarsDate(rows[r].related).ordinal
                     < days_value])

\* try: start_date <= date <= end_date; except ValueError: False
is_date_in_range(date_value, start_date_value, end_date_value) ==
    IF PythonDate(date_value).ok /\ PythonDate(start_date_value).ok
          /\ PythonDate(end_date_value).ok
    THEN Returns(/\ PythonDate(start_date_value).ordinal <= PythonDate(date_value).ordinal
                 /\ PythonDate(date_value).ordinal <= PythonDate(end_date_value).ordinal)
    ELSE Returns(FALSE)

DateCells ==
    { <<"2", "0", "2", "3", "0", "2", "2", "8">>,
      <<"2", "0", "2", "3", "0", "3", "0", "1">>,
      <<"2", "0", "2", "4", "0", "2", "2", "9">>,
      <<"2", "0", "2", "2", "1", "3", "4", "4">>,
      <<"2", "0", "2", "3", "2", "2", "8">>,
      <<>> }

RangeEnds ==
    { <<"2", "0", "2", "3", "0", "1", "0", "1">>,
      <<"2", "0", "2", "3", "1", "2", "3", "1">>,
      <<"2", "0", "2", "3", "1", "3", "0", "1">> }

Frames(RowSet) == UNION {[1..n -> RowSet] : n \in 1..MaxRows}

InitDates ==
    /\ \/ /\ check \in [name : {"is_date_after"}]
          /\ data \in Frames([related : DateCells, target : DateCells])
       \/ /\ check \in [name : {"is_date_before_in_days"}, days_value : {1, 730}]
          /\ data \in Frames([related : DateCells, target : DateCells])
       \/ /\ check \in [name : {"is_date_in_range"},
                        start_date_value : RangeEnds, end_date_value : RangeEnds]
          /\ data \in Frames([target : DateCells])
    /\ check_results = Pending
    /\ NoAlloc
    /\ max_records = 0
    /\ NoDicts
    /\ NoDownload

EvalIsDateAfter ==
    /\ check.name = "is_date_after"
    /\ check_results.status = "pending"
    /\ check_results' = is_date_after(data)
    /\ UNCHANGED <<check, data, max_records>>
    /\ UNCHANGED alloc_vars
    /\ UNCHANGED dicts_vars
    /\ UNCHANGED download_vars

EvalIsDateBeforeInDays ==
    /\ check.name = "is_date_before_in_days"
    /\ check_results.status = "pending"
    /\ check_results' = is_date_before_in_days(data, check.days_value)
    /\ UNCHANGED <<check, data, max_records>>
    /\ UNCHANGED alloc_vars
    /\ UNCHANGED dicts_vars
    /\ UNCHANGED download_vars

EvalIsDateInRange ==
    /\ check.name = "is_date_in_range"
    /\ check_results.status = "pending"
    /\ check_results' =
          ElementWise([r \in DOMAIN data |->
              is_date_in_range(data[r].target, check.start_date_value, check.end_date_value)])
    /\ UNCHANGED <<check, data, max_records>>
    /\ UNCHANGED alloc_vars
    /\ UNCHANGED dicts_vars
    /\ UNCHANGED download_vars

NextDates ==
    \/ EvalIsDateAfter
    \/ EvalIsDateBeforeInDays
    \/ EvalIsDateInRange

SpecDates == InitDates /\ [][NextDates]_vars

\* A valid 8-digit YYYYMMDD calendar date.
ValidYYYYMMDD(s) ==
    /\ Len(s) = 8
    /\ \A k \in 1..8 : IsDigit(s[k])
    /\ NumberAt(s, 5, 6) \in 1..12
    /\ NumberAt(s, 7, 8) \in 1..DaysInMonth(NumberAt(s, 1, 4), NumberAt(s, 5, 6))

\* The dates a row of the check is evaluated on: its target and what it is
\* compared against.
DatesOfRow(r) ==
    IF check.name = "is_date_in_range"
    THEN {data[r].target, check.start_date_value, check.end_date_value}
    ELSE {data[r].target, data[r].related}

DateChecks == {"is_date_after", "is_date_before_in_days", "is_date_in_range"}

\* C9: the relational date evaluators raise nothing, and give false to every
\* row in which the target or a date it is compared against is not a valid
\* 8-digit YYYYMMDD calendar date.
C9_DatesFailNotRaise ==
    check.name \in DateChecks /\ check_results.status # "pending" =>
        /\ check_results.status = "done"
        /\ \A r \in DOMAIN data :
              (\E s \in DatesOfRow(r) : ~ValidYYYYMMDD(s)) => check_results.values[r] = FALSE

(***************************************************************************)
(* Column checks: has_valid_multi_field_value_count and is_unique_column.  *)
(***************************************************************************)
MaxValueCount == 3    \* max_length of a value-count check

IgnoredValueSets == {{}, {<<"2">>}}

\* col.str.split(separator).list.set_difference(list(ignored_values))
\*    .list.lengths(): the distinct sub-values outside ignored_values.
set_difference_length(cell, ignored_values) ==
    Cardinality(Range(Split(cell, ";")) \ ignored_values)

\* (rf["groupby_length"] + rf["field_length"]) <= max_length
has_valid_multi_field_value_count(row, max_length, ignored_values) ==
    set_difference_length(row.related, ignored_values)
        + set_difference_length(row.target, ignored_values) <= max_length

KeyCells == {<<"A">>, <<"B">>}

\* DataFrame.is_unique() on the selected key column: a row is true when no
\* other row has its value; count_limit is not read.
is_unique_column(frame, count_limit) ==
    [r \in DOMAIN frame |->
        Cardinality({k \in DOMAIN frame : frame[k].key = frame[r].key}) = 1]

SingleValueSets == {{<<"1">>}, {<<"1">>, <<"2">>}}

\* ct_values_set.isdisjoint(single_values)
\*    or (len(ct_values_set) == 1 and ct_values_set.issubset(single_values))
meets_multi_value_field_restriction(ct_value, single_values) ==
    LET ct_values_set == Range(Split(ct_value, ";"))
    IN  \/ ct_values_set \cap single_values = {}
        \/ (Cardinality(ct_values_set) = 1 /\ ct_values_set \subseteq single_values)

LeiLength == 20

\* Two LEIs that differ in their last character only.
LeiA == [k \in 1..LeiLength |-> "A"]
LeiB == [k \in 1..LeiLength |-> IF k = LeiLength THEN "B" ELSE "A"]

\* ULIs: an LEI alone or with a loan suffix, and one shorter than an LEI.
Ulis == {LeiA, LeiA \o <<"1">>, LeiA \o <<"2">>, LeiB \o <<"1">>, <<"A", "A">>}

\* The series handed in as ulis: a polars Series, the declared type of the
\* argument, or a pandas Series.
SeriesKinds == {"polars", "pandas"}

\* The attribute lookup leis.nunique: a pandas Series has the method, a
\* polars Series names it n_unique and has no attribute nunique.
has_nunique(series) == series = "pandas"

\* s[:20]
lei(s) == SubSeq(s, 1, IF Len(s) < LeiLength THEN Len(s) ELSE LeiLength)

\* leis = ulis.apply(lambda s: s[:20], pl.String); return leis.nunique() == 1
\* The lookup of nunique raises AttributeError on a polars Series.
begins_with_same_lei(ulis, series) ==
    LET leis == [k \in DOMAIN ulis |-> lei(ulis[k])]
    IN  IF has_nunique(series)
        THEN Done(<<Cardinality(Range(leis)) = 1>>)
        ELSE Raised

InitColumns ==
    /\ \/ /\ check \in [name : {"has_valid_multi_field_value_count"},
                        max_length : 0..MaxValueCount,
                        ignored_values : IgnoredValueSets]
          /\ data \in [1..1 -> [related : MultiCells, target : MultiCells]]
       \/ /\ check \in [name : {"is_unique_column"}, count_limit : 1..MaxRows]
          /\ data \in SeqsUpTo([key : KeyCells], MaxRows)
       \/ /\ check \in [name : {"meets_multi_value_field_restriction"},
                        single_values : SingleValueSets]
          /\ data \in [1..1 -> MultiCells]
       \/ /\ check \in [name : {"begins_with_same_lei"}, series : SeriesKinds]
          /\ data \in SeqsUpTo(Ulis, MaxRows)
    /\ check_results = Pending
    /\ NoAlloc
    /\ max_records = 0
    /\ NoDicts
    /\ NoDownload

EvalHasValidMultiFieldValueCount ==
    /\ check.name = "has_valid_multi_field_value_count"
    /\ check_results.status = "pending"
    /\ check_results' =
          Done([r \in DOMAIN data |->
                   has_valid_multi_field_value_count(data[r], check.max_length,
                                                     check.ignored_values)])
    /\ UNCHANGED <<check, data, max_records>>
    /\ UNCHANGED alloc_vars
    /\ UNCHANGED dicts_vars
    /\ UNCHANGED download_vars

EvalIsUniqueColumn ==
    /\ check.name = "is_unique_column"
    /\ check_results.status = "pending"
    /\ check_results' = Done(is_unique_column(data, check.count_limit))
    /\ UNCHANGED <<check, data, max_records>>
    /\ UNCHANGED alloc_vars
    /\ UNCHANGED dicts_vars
    /\ UNCHANGED download_vars

\* The element-wise check on every value of the column.
EvalMeetsMultiValueFieldRestriction ==
    /\ check.name = "meets_multi_value_field_restriction"
    /\ check_results.status = "pending"
    /\ check_results' =
          Done([r \in DOMAIN data |->
                   meets_multi_value_field_restriction(data[r], check.single_values)])
    /\ UNCHANGED <<check, data, max_records>>
    /\ UNCHANGED alloc_vars
    /\ UNCHANGED dicts_vars
    /\ UNCHANGED download_vars

\* One boolean for the whole series of ULIs, or the AttributeError.
EvalBeginsWithSameLei ==
    /\ check.name = "begins_with_same_lei"
    /\ check_results.status = "pending"
    /\ check_results' = begins_with_same_lei(data, check.series)
    /\ UNCHANGED <<check, data, max_records>>
    /\ UNCHANGED alloc_vars
    /\ UNCHANGED dicts_vars
    /\ UNCHANGED download_vars

NextColumns ==
    \/ EvalHasValidMultiFieldValueCount
    \/ EvalIsUniqueColumn
    \/ EvalMeetsMultiValueFieldRestriction
    \/ EvalBeginsWithSameLei

SpecColumns == InitColumns /\ [][NextColumns]_vars

\* The distinct non-blank sub-values of a cell that are not ignored.
NonBlankValues(cell, ignored_values) ==
    {v \in Range(Split(cell, ";")) : Strip(v) # <<>>} \ ignored_values

\* C17: has_valid_multi_field_value_count passes a row iff the number of
\* distinct non-blank sub-values of the target cell outside ignored_values
\* plus the same number for the related cell is at most max_length; a blank
\* cell contributes 0.
C17_MultiFieldValueCount ==
    check.name = "has_valid_multi_field_value_count" /\ check_results.status = "done" =>
        \A r \in DOMAIN data :
            check_results.values[r] =
                (Cardinality(NonBlankValues(data[r].target, check.ignored_values))
                    + Cardinality(NonBlankValues(data[r].related, check.ignored_values))
                        <= check.max_length)

\* C18: is_unique_column is a register-wide count check: every row passes
\* iff the number of distinct values of the key column over the whole
\* dataset is at most count_limit.
C18_RegisterWideCount ==
    check.name = "is_unique_column" /\ check_results.status = "done" =>
        \A r \in DOMAIN data :
            check_results.values[r] =
                (Cardinality({data[k].key : k \in DOMAIN data}) <= check.count_limit)

\* C25: meets_multi_value_field_restriction passes a value iff none of its
\* separator-split sub-values is in single_values, or the value consists of
\* exactly one sub-value and that sub-value is in single_values (a lone
\* restricted value passes, a restricted value next to another fails, a
\* value without restricted sub-values passes).
C25_MultiValueRestriction ==
    check.name = "meets_multi_value_field_restriction" /\ check_results.status = "done" =>
        \A r \in DOMAIN data :
            LET parts == Split(data[r], ";")
            IN  check_results.values[r] =
                    \/ \A k \in DOMAIN parts : parts[k] \notin check.single_values
                    \/ /\ Len(parts) = 1
                       /\ parts[1] \in check.single_values

\* The first 20 characters of two identifiers are the same.
SamePrefix(u, v) ==
    \A c \in 1..20 :
        /\ (c <= Len(u)) = (c <= Len(v))
        /\ c <= Len(u) => u[c] = v[c]

\* C26: begins_with_same_lei returns true iff the first 20 characters of the
\* identifier are identical across every record of the dataset, and false as
\* soon as two records have different 20-character prefixes.
C26_SameLeiEveryRecord ==
    check.name = "begins_with_same_lei" /\ check_results.status # "pending" =>
        check_results = Done(<<\A j, k \in DOMAIN data : SamePrefix(data[j], data[k])>>)

(***************************************************************************)
(* calculate_group_chunk_sizes                                             *)
(*                                                                         *)
(* error_counts is the OrderedDict sorted by validation id: position k is  *)
(* the k-th validation id in lexical order.                                *)
(***************************************************************************)
MaxGroups == 3        \* validation ids
MaxCount == 4         \* distinct records of one validation id
MaxRecords == 6       \* max_records

RECURSIVE Sum(_)
Sum(seq) == IF seq = <<>> THEN 0 ELSE Head(seq) + Sum(Tail(seq))

\* The triples <<count, total, max_records>>, total up to 55, for which the
\* double max_records * (count / total) is greater than the exact quotient,
\* an integer: 25 * (14 / 50) is 7.000000000000001 and 25 * (28 / 50) is
\* 14.000000000000002.  For every other triple of that range the double has
\* the ceiling of the exact quotient.
FloatProductAbove == {<<14, 50, 25>>, <<28, 50, 25>>}

\* The share rounded down: math.floor in place of math.ceil.
FloorShare(max, count, total) == (max * count) \div total

\* math.ceil(max_records * (count / total_error_count)), in double arithmetic.
CeilShare(max, count, total) ==
    ((max * count + total - 1) \div total)
        + (IF <<count, total, max>> \in FloatProductAbove THEN 1 ELSE 0)

\* new_counts = [math.ceil(max_records * prop) for prop in error_ratios]
CeilShares(counts, max) == [k \in DOMAIN counts |-> CeilShare(max, counts[k], Sum(counts))]

\* for i in reversed(range(len(new_counts))): the index of the j-th iteration.
reversed_range(n, j) == n + 1 - j

\* A share of 1 lowered without the test that every share is down to 1.
decrement_any_one(counts, i) ==
    IF counts[i] >= 1 THEN [counts EXCEPT ![i] = @ - 1] ELSE counts

\* The branch that lowers a share of 1 left out.
decrement_above_one(counts, i) ==
    IF counts[i] > 1 THEN [counts EXCEPT ![i] = @ - 1] ELSE counts

\* The body of the for loop up to the break test, at index i.
decrement(counts, i) ==
    IF counts[i] > 1 THEN [counts EXCEPT ![i] = @ - 1]
    ELSE IF counts[i] = 1 /\ Sum(counts) <= Len(counts) THEN [counts EXCEPT ![i] = @ - 1]
    ELSE counts

\* The for loop runs on without the break test.
break_never(counts, max) == FALSE

\* if sum(new_counts) == max_records: break
break_reached(counts, max) == Sum(counts) = max

\* One iteration of `for i in reversed(range(len(new_counts)))` inside the
\* while loop: the decrement at the index, then the break test; `step` is the
\* number of iterations of this pass already made, `more` whether the loops
\* go on (the for loop, or the while loop with a new pass).
for_iteration(counts, done_steps, max) ==
    LET i == reversed_range(Len(counts), done_steps + 1)
        c == decrement(counts, i)
        leaves_for == break_reached(c, max) \/ done_steps + 1 = Len(counts)
    IN  [new_counts |-> c,
         step |-> IF leaves_for THEN 0 ELSE done_steps + 1,
         more |-> IF leaves_for THEN Sum(c) > max ELSE TRUE]

\* while sum(new_counts) > max_records: for ...: the loops run to their end.
RECURSIVE adjust(_, _, _)
adjust(counts, done_steps, max) ==
    LET it == for_iteration(counts, done_steps, max)
    IN  IF it.more THEN adjust(it.new_counts, it.step, max) ELSE it.new_counts

\* The budget test taken on every input.
budget_always_exceeded(counts, max) == TRUE

\* if total_error_count > max_records
budget_exceeded(counts, max) == Sum(counts) > max

\* The shares returned for the counts of the groups in sorted id order.
calculate_group_chunk_sizes(counts, max) ==
    IF budget_exceeded(counts, max)
    THEN LET shares == CeilShares(counts, max)
         IN  IF Sum(shares) > max THEN adjust(shares, 0, max) ELSE shares
    ELSE counts

\* Counts with a total of 50, where the double product leaves the exact one.
LargeCounts == {<<14, 36>>, <<36, 14>>, <<14, 1, 35>>, <<35, 1, 14>>, <<28, 22>>, <<22, 28>>}

InitAlloc ==
    /\ error_counts \in UNION {[1..n -> 1..MaxCount] : n \in 1..MaxGroups} \cup LargeCounts
    /\ max_records \in 0..MaxRecords \cup {25}
    /\ new_counts = <<>>
    /\ step = 0
    /\ pc = "start"
    /\ NoCheck
    /\ NoDicts
    /\ NoDownload

\* total_error_count <= max_records: the counts are returned as they are.
WithinBudget ==
    /\ pc = "start"
    /\ ~budget_exceeded(error_counts, max_records)
    /\ new_counts' = error_counts
    /\ pc' = "done"
    /\ UNCHANGED <<error_counts, max_records, step>>
    /\ UNCHANGED check_vars
    /\ UNCHANGED dicts_vars
    /\ UNCHANGED download_vars

\* total_error_count > max_records: the ceiling shares, adjusted when they
\* sum to more than max_records.
ComputeShares ==
    /\ pc = "start"
    /\ budget_exceeded(error_counts, max_records)
    /\ new_counts' = CeilShares(error_counts, max_records)
    /\ pc' = IF Sum(new_counts') > max_records THEN "for" ELSE "done"
    /\ UNCHANGED <<error_counts, max_records, step>>
    /\ UNCHANGED check_vars
    /\ UNCHANGED dicts_vars
    /\ UNCHANGED download_vars

\* One iteration of the for loop, with the loop control that follows it: the
\* break, the next index, or the while test at the end of the pass.
AdjustStep ==
    /\ pc = "for"
    /\ LET it == for_iteration(new_counts, step, max_records)
       IN  /\ new_counts' = it.new_counts
           /\ step' = it.step
           /\ pc' = IF it.more THEN "for" ELSE "done"
    /\ UNCHANGED <<error_counts, max_records>>
    /\ UNCHANGED check_vars
    /\ UNCHANGED dicts_vars
    /\ UNCHANGED download_vars

NextAlloc ==
    \/ WithinBudget
    \/ ComputeShares
    \/ AdjustStep

SpecAlloc == InitAlloc /\ [][NextAlloc]_vars

\* The least integer not below a / b.
Ceiling(a, b) == CHOOSE n \in 0..a : n * b >= a /\ (n - 1) * b < a

CeilingShares == [k \in DOMAIN error_counts |->
                     Ceiling(max_records * error_counts[k], Sum(error_counts))]

\* C2: when the total of the groups' counts exceeds max_records, the
\* returned shares sum to exactly max_records.
C2_SharesSumToMax ==
    pc = "done" /\ Sum(error_counts) > max_records => Sum(new_counts) = max_records

\* The ceiling shares of three groups overshoot the budget by two and the
\* adjusted shares meet it.
C2_Witness ==
    /\ pc = "done"
    /\ error_counts = <<2, 2, 2>>
    /\ max_records = 4
    /\ Sum(CeilingShares) = 6
    /\ Sum(new_counts) = 4

\* The groups whose ceiling share is greater than 1.
Reducible == {k \in DOMAIN error_counts : CeilingShares[k] > 1}

\* The n greatest validation ids (positions) of a set of groups.
Greatest(S, n) == {k \in S : Cardinality({j \in S : j > k}) < n}

\* C10: when the ceiling shares sum to max_records + k, k >= 1, and at least
\* k groups have a ceiling share greater than 1, the returned shares are the
\* ceiling shares with the k lexically greatest of those groups reduced by one
\* and every other share unchanged.
C10_ReverseOrderCorrection ==
    pc = "done" /\ Sum(error_counts) > max_records =>
        LET k == Sum(CeilingShares) - max_records
        IN  k >= 1 /\ Cardinality(Reducible) >= k =>
                \A g \in DOMAIN error_counts :
                    new_counts[g] = IF g \in Greatest(Reducible, k)
                                    THEN CeilingShares[g] - 1
                                    ELSE CeilingShares[g]

\* C12: within budget nothing is truncated: when the sum of the groups'
\* distinct-record counts is at most max_records, the share returned for
\* every group is the group's count.
C12_NoTruncationWithinBudget ==
    pc = "done" /\ Sum(error_counts) <= max_records => new_counts = error_counts

\* Two groups with three records in all and a budget of four.
C12_Witness ==
    /\ pc = "done"
    /\ error_counts = <<2, 1>>
    /\ max_records = 4
    /\ new_counts = <<2, 1>>

\* C13: when the total exceeds max_records, the share of each group before
\* the adjustment is ceil(max_records * group_count / total_count), and when
\* these ceiling shares sum to max_records they are returned unchanged.
C13_ProportionalShare ==
    [][pc = "start" /\ Sum(error_counts) > max_records =>
          /\ new_counts' = CeilingShares
          /\ (Sum(CeilingShares) = max_records => pc' = "done")]_vars

\* C14: for positive counts with a total above max_records, the ceiling
\* shares the code computes never sum to less than max_records, and the
\* adjustment only lowers shares: the shares stay at or below the computed
\* ones and their sum at or above max_records.
C14_SharesNeverBelowMax ==
    Sum(error_counts) > max_records =>
        /\ Sum(CeilShares(error_counts, max_records)) >= max_records
        /\ pc \in {"for", "done"} =>
              /\ Sum(new_counts) >= max_records
              /\ \A k \in DOMAIN new_counts :
                    new_counts[k] <= CeilShares(error_counts, max_records)[k]

\* The ceiling shares of three groups exceed the budget by two and the
\* adjustment has lowered one of them.
C14_Witness ==
    /\ pc = "for"
    /\ error_counts = <<2, 2, 2>>
    /\ max_records = 4
    /\ Sum(CeilShares(error_counts, max_records)) = 6
    /\ new_counts = <<2, 2, 1>>

\* C28: at every step of the adjustment loop a share goes from 1 to 0 only
\* when no group's share is greater than 1; so a returned share of 0 occurs
\* only when every returned share is at most 1.
C28_OnesAfterLarger ==
    [][/\ \A i \in DOMAIN new_counts :
             pc = "for" /\ new_counts[i] = 1 /\ new_counts'[i] = 0 =>
                 \A j \in DOMAIN new_counts : new_counts[j] <= 1
       /\ pc' = "done" /\ (\E i \in DOMAIN new_counts' : new_counts'[i] = 0) =>
             \A j \in DOMAIN new_counts' : new_counts'[j] <= 1]_vars

\* Three groups of one record under a budget of two: the last share went
\* from 1 to 0.
C28_Witness ==
    /\ pc = "done"
    /\ error_counts = <<1, 1, 1>>
    /\ max_records = 2
    /\ new_counts = <<1, 1, 0>>

\* The function runs on until it returns.
SpecAllocFair == SpecAlloc /\ WF_vars(NextAlloc)

\* The shares at the end of the pass of the for loop that starts at `counts`.
RECURSIVE pass(_, _, _)
pass(counts, done_steps, max) ==
    LET it == for_iteration(counts, done_steps, max)
    IN  IF it.step = 0 THEN it.new_counts ELSE pass(it.new_counts, it.step, max)

\* C29: the adjustment loop terminates: for positive counts and a
\* max_records >= 0 below their total, every pass over the groups lowers the
\* sum of the shares by at least one, not below max_records, and the
\* function returns.
C29_LoopTerminates ==
    /\ [](pc = "for" /\ step = 0 =>
             /\ Sum(pass(new_counts, 0, max_records)) < Sum(new_counts)
             /\ Sum(pass(new_counts, 0, max_records)) >= max_records)
    /\ <>(pc = "done")

\* A budget of two for counts 4, 1, 1: the first pass lowers only the first
\* share, the second pass takes the last share to 0.
C29_Witness ==
    /\ pc = "done"
    /\ error_counts = <<4, 1, 1>>
    /\ max_records = 2
    /\ CeilShares(error_counts, max_records) = <<2, 1, 1>>
    /\ new_counts = <<1, 1, 0>>

(***************************************************************************)
(* df_to_dicts: grouping, truncation and the structured document.          *)
(*                                                                         *)
(* A row of df is one finding: validation_id, record_no, uid, field_name,  *)
(* field_value.                                                            *)
(***************************************************************************)
MaxFindings == 3      \* rows of df
MaxGroupSize == 2     \* max_group_size
DefaultMaxRecords == 10000

\* The validation ids of the findings, in lexical order.
ValidationIds == <<"E0001", "W0002">>

IdIndex(id) == CHOOSE k \in DOMAIN ValidationIds : ValidationIds[k] = id

RecordNos == 0..2

FieldNames == {"field_a", "field_b"}

\* get_all_checks(): the catalogue, one check per validation id.
Checks ==
    {[title |-> "E0001", severity |-> "error"],
     [title |-> "W0002", severity |-> "warning"]}

\* next(check for check in checks if check.title == group_name)
find_check(group_name, checks) == CHOOSE c \in checks : c.title = group_name

\* The findings a validation run can emit: the uid is the record's, the value
\* is the record's cell of that field.
Findings ==
    {[validation_id |-> v, record_no |-> r, uid |-> <<"uid", r>>,
      field_name |-> f, field_value |-> <<"value", r, f>>] :
        v \in Range(ValidationIds), r \in RecordNos, f \in FieldNames}

\* A check reports a field of a record once.
Frames_df == {d \in SeqsUpTo(Findings, MaxFindings) :
                 \A j, k \in DOMAIN d : j # k => d[j] # d[k]}

\* The rows of one validation id, in the order of df.
Group(frame, validation_id) ==
    LET InGroup(row) == row.validation_id = validation_id
    IN  SelectSeq(frame, InGroup)

GroupIds(frame) == {frame[k].validation_id : k \in DOMAIN frame}

\* The ascending sequence of the numbers of a set.
RECURSIVE Ascending(_)
Ascending(S) ==
    IF S = {} THEN <<>>
    ELSE LET least == CHOOSE x \in S : \A y \in S : x <= y
         IN  <<least>> \o Ascending(S \ {least})

\* The record numbers of the rows, in order of first appearance (the keys of
\* records_dict).
RECURSIVE FirstAppearance(_, _)
FirstAppearance(rows, seen) ==
    IF rows = <<>> THEN <<>>
    ELSE IF Head(rows).record_no \in seen THEN FirstAppearance(Tail(rows), seen)
    ELSE <<Head(rows).record_no>>
            \o FirstAppearance(Tail(rows), seen \cup {Head(rows).record_no})

\* The distinct values in the order of the rows.
unique_in_row_order(group) == FirstAppearance(group, {})

\* Series.unique() on the integer column record_no: the distinct values,
\* which the unsorted column yields in ascending order.
unique(group) == Ascending({group[k].record_no : k \in DOMAIN group})

\* seq[:n]
Take(seq, n) == SubSeq(seq, 1, IF n < Len(seq) THEN n ELSE Len(seq))

\* group.head(group_size): a cut on rows.
truncate_validation_group_rows(group, group_size) ==
    [truncated_group |-> Take(group, group_size),
     need_to_truncate |-> Len(unique(group)) > group_size]

\* The flag taken from the number of rows instead of distinct record numbers.
truncate_flag_on_rows(group, group_size) ==
    LET unique_record_nos == unique(group)
        need_to_truncate == Len(group) > group_size
        kept == IF Len(unique_record_nos) > group_size
                THEN Take(unique_record_nos, group_size)
                ELSE unique_record_nos
        IsIn(row) == row.record_no \in Range(kept)
    IN  [truncated_group |-> SelectSeq(group, IsIn), need_to_truncate |-> need_to_truncate]

truncate_validation_group_records(group, group_size) ==
    LET unique_record_nos == unique(group)
        need_to_truncate == Len(unique_record_nos) > group_size
        kept == IF need_to_truncate THEN Take(unique_record_nos, group_size)
                ELSE unique_record_nos
        IsIn(row) == row.record_no \in Range(kept)
    IN  [truncated_group |-> SelectSeq(group, IsIn), need_to_truncate |-> need_to_truncate]

\* records_dict[record_no]: the uid of the record's first row, and a field per
\* row of the record, in row order.
RecordOf(rows, record_no) ==
    LET OfRecord(row) == row.record_no = record_no
        mine == SelectSeq(rows, OfRecord)
    IN  [record_no |-> record_no,
         uid |-> mine[1].uid,
         fields |-> [k \in DOMAIN mine |->
                        [name |-> mine[k].field_name, value |-> mine[k].field_value]]]

\* The fields reversed whatever their number.
SwapAny(record) ==
    [record EXCEPT !.fields = [k \in DOMAIN @ |-> @[Len(@) + 1 - k]]]

\* The swap in two assignments, the second reading the overwritten field.
SwapTwoSequential(record) ==
    IF Len(record.fields) = 2
    THEN [record EXCEPT !.fields = <<record.fields[2], record.fields[2]>>]
    ELSE record

\* A record with exactly two fields has them swapped.
SwapTwo(record) ==
    IF Len(record.fields) = 2
    THEN [record EXCEPT !.fields = <<record.fields[2], record.fields[1]>>]
    ELSE record

\* process_chunk: None (the empty sequence here) for no rows, else the one
\* validation object of the group.
process_chunk(rows, validation_id, the_check) ==
    IF rows = <<>> THEN <<>>
    ELSE LET keys == FirstAppearance(rows, {})
         IN  << [validation |-> [id |-> validation_id, severity |-> the_check.severity],
                 records |-> [k \in DOMAIN keys |-> SwapTwo(RecordOf(rows, keys[k]))]] >>

\* error_counts: n_unique record_no per validation id, sorted by id; the
\* shares are zipped back to the ids.
GroupSizes(frame, max) ==
    LET ids == Ascending({IdIndex(id) : id \in GroupIds(frame)})
        counts == [k \in DOMAIN ids |-> Len(unique(Group(frame, ValidationIds[ids[k]])))]
        shares == calculate_group_chunk_sizes(counts, max)
    IN  [id \in GroupIds(frame) |->
            shares[CHOOSE k \in DOMAIN ids : ids[k] = IdIndex(id)]]

\* The list as the groups appended to it, without the sort.
appended_order(results) == results

\* sorted(json_results, key=lambda x: x['validation']['id'])
RECURSIVE SortedById(_)
SortedById(results) ==
    IF results = <<>> THEN <<>>
    ELSE LET first == CHOOSE k \in DOMAIN results :
                 \A j \in DOMAIN results :
                     \/ IdIndex(results[k].validation.id) < IdIndex(results[j].validation.id)
                     \/ (IdIndex(results[k].validation.id) = IdIndex(results[j].validation.id)
                            /\ k <= j)
             rest == [j \in 1..(Len(results) - 1) |->
                         IF j < first THEN results[j] ELSE results[j + 1]]
         IN  <<results[first]>> \o SortedById(rest)

\* The emptiness test answering no for every frame.
is_empty_never(frame) == FALSE

\* df.is_empty()
is_empty(frame) == frame = <<>>

InitDicts ==
    /\ df \in Frames_df
    /\ \/ max_group_size = None /\ max_records \in 0..MaxFindings
       \/ max_group_size \in {<<n>> : n \in 0..MaxGroupSize}
             /\ max_records = DefaultMaxRecords
    /\ total_errors_per_group = <<>>
    /\ truncated_group = <<>>
    /\ json_results = <<>>
    /\ todo = {}
    /\ group_order = <<>>
    /\ dpc = "start"
    /\ NoCheck
    /\ NoAlloc
    /\ NoDownload

\* df.is_empty(): the empty list is returned.
DictsEmpty ==
    /\ dpc = "start"
    /\ is_empty(df)
    /\ dpc' = "done"
    /\ UNCHANGED <<df, max_group_size, total_errors_per_group, truncated_group, json_results,
                   todo, group_order, max_records>>
    /\ UNCHANGED check_vars
    /\ UNCHANGED alloc_vars
    /\ UNCHANGED download_vars

\* The caps: proportional shares, or max_group_size for every group.
DictsGroupSizes ==
    /\ dpc = "start"
    /\ ~is_empty(df)
    /\ total_errors_per_group' =
          IF falsy(max_group_size) THEN GroupSizes(df, max_records)
          ELSE [id \in GroupIds(df) |-> max_group_size[1]]
    /\ todo' = GroupIds(df)
    /\ dpc' = "map_groups"
    /\ UNCHANGED <<df, max_group_size, truncated_group, json_results, group_order,
                   max_records>>
    /\ UNCHANGED check_vars
    /\ UNCHANGED alloc_vars
    /\ UNCHANGED download_vars

\* process_group_data on one group, the groups coming in any order.
ProcessGroupData ==
    /\ dpc = "map_groups"
    /\ \E validation_id \in todo :
          LET group_df == Group(df, validation_id)
              cut == truncate_validation_group_records(
                         group_df, total_errors_per_group[validation_id])
              group_json == process_chunk(cut.truncated_group, validation_id,
                                          find_check(validation_id, Checks))
          IN  /\ truncated_group' =
                    [id \in DOMAIN truncated_group \cup {validation_id} |->
                        IF id = validation_id THEN cut.truncated_group
                        ELSE truncated_group[id]]
              /\ json_results' =
                    IF group_json # <<>>
                    THEN Append(json_results,
                                [group_json[1] EXCEPT !.validation =
                                    [id |-> @.id, severity |-> @.severity,
                                     is_truncated |-> cut.need_to_truncate]])
                    ELSE json_results
              /\ todo' = todo \ {validation_id}
              /\ group_order' = Append(group_order, validation_id)
    /\ UNCHANGED <<df, max_group_size, total_errors_per_group, dpc, max_records>>
    /\ UNCHANGED check_vars
    /\ UNCHANGED alloc_vars
    /\ UNCHANGED download_vars

\* Every group is done: the list is sorted by validation id and returned.
DictsSort ==
    /\ dpc = "map_groups"
    /\ todo = {}
    /\ json_results' = SortedById(json_results)
    /\ dpc' = "done"
    /\ UNCHANGED <<df, max_group_size, total_errors_per_group, truncated_group, todo,
                   group_order, max_records>>
    /\ UNCHANGED check_vars
    /\ UNCHANGED alloc_vars
    /\ UNCHANGED download_vars

NextDicts ==
    \/ DictsEmpty
    \/ DictsGroupSizes
    \/ ProcessGroupData
    \/ DictsSort

SpecDicts == InitDicts /\ [][NextDicts]_vars

\* The rows of a record in a sequence of rows.
RowsOf(rows, record_no) == {k \in DOMAIN rows : rows[k].record_no = record_no}

\* C3: truncation never splits a record: of every record of a group,
\* truncate_validation_group_records keeps all the findings or none.
C3_NeverSplitsRecord ==
    \A id \in DOMAIN truncated_group :
        \A r \in RecordNos :
            LET had == Cardinality(RowsOf(Group(df, id), r))
                kept == Cardinality(RowsOf(truncated_group[id], r))
            IN  kept = 0 \/ kept = had

\* A group of two records, the first with two findings, is cut to one record:
\* both findings of the first record are kept and the second record is dropped.
C3_Witness ==
    /\ "E0001" \in DOMAIN truncated_group
    /\ total_errors_per_group["E0001"] = 1
    /\ Cardinality(RowsOf(Group(df, "E0001"), 0)) = 2
    /\ Cardinality(RowsOf(Group(df, "E0001"), 1)) = 1
    /\ Cardinality(RowsOf(truncated_group["E0001"], 0)) = 2
    /\ Cardinality(RowsOf(truncated_group["E0001"], 1)) = 0

\* Truncation removed a record of the group.
LostRecord(id) ==
    \E k \in DOMAIN df :
        /\ df[k].validation_id = id
        /\ RowsOf(truncated_group[id], df[k].record_no) = {}

\* C4: data is never dropped without a signal: every group from which
\* truncation removed a record has an object in the returned list, with
\* is_truncated true.
C4_NoSilentDrop ==
    dpc = "done" =>
        \A id \in DOMAIN truncated_group :
            LostRecord(id) =>
                \E k \in DOMAIN json_results :
                    /\ json_results[k].validation.id = id
                    /\ json_results[k].validation.is_truncated

\* The distinct record numbers of a sequence of rows.
RecordsOf(rows) == {rows[k].record_no : k \in DOMAIN rows}

\* The n smallest numbers of a set.
Smallest(S, n) == {r \in S : Cardinality({q \in S : q < r}) < n}

\* C11: truncate_validation_group_records keeps the lowest record numbers:
\* for a group with more than N distinct record numbers and cap N, the
\* retained findings are exactly those of the N smallest distinct record
\* numbers of the group, so every dropped record number is greater than
\* every kept one.
C11_KeepsLowestRecords ==
    \A id \in DOMAIN truncated_group :
        LET group == Group(df, id)
            N == total_errors_per_group[id]
            InSmallest(row) == row.record_no \in Smallest(RecordsOf(group), N)
            kept == RecordsOf(truncated_group[id])
        IN  Cardinality(RecordsOf(group)) > N =>
                /\ truncated_group[id] = SelectSeq(group, InSmallest)
                /\ \A k \in kept, d \in RecordsOf(group) \ kept : d > k

\* A group whose findings come with record 2 before record 0 is cut to one
\* record: record 0 is kept and record 2 dropped.
C11_Witness ==
    /\ "E0001" \in DOMAIN truncated_group
    /\ total_errors_per_group["E0001"] = 1
    /\ Len(Group(df, "E0001")) = 2
    /\ Group(df, "E0001")[1].record_no = 2
    /\ Group(df, "E0001")[2].record_no = 0
    /\ RecordsOf(truncated_group["E0001"]) = {0}

\* The validation object of a group, from the findings and the caps alone.
GroupObject(id) ==
    LET cut == truncate_validation_group_records(Group(df, id), total_errors_per_group[id])
        obj == process_chunk(cut.truncated_group, id, find_check(id, Checks))[1]
    IN  [obj EXCEPT !.validation = [id |-> @.id, severity |-> @.severity,
                                    is_truncated |-> cut.need_to_truncate]]

\* C15: the output of df_to_dicts is ordered and deterministic: the returned
\* validation objects are in ascending lexical order of validation id, and
\* the list is the same for every order in which the groups were processed
\* and appended: one object, fixed by the findings and the caps, for every
\* group that keeps a record.
C15_DeterministicOrder ==
    dpc = "done" /\ df # <<>> =>
        /\ \A j, k \in DOMAIN json_results :
              j < k => IdIndex(json_results[j].validation.id)
                           < IdIndex(json_results[k].validation.id)
        /\ \A k \in DOMAIN json_results :
              json_results[k] = GroupObject(json_results[k].validation.id)
        /\ {json_results[k].validation.id : k \in DOMAIN json_results}
              = {id \in GroupIds(df) : total_errors_per_group[id] > 0}

\* The groups were processed in descending order of validation id and the
\* returned list has them in ascending order.
C15_Witness ==
    /\ dpc = "done"
    /\ group_order = <<"W0002", "E0001">>
    /\ Len(json_results) = 2
    /\ json_results[1].validation.id = "E0001"
    /\ json_results[2].validation.id = "W0002"

\* C16: within every validation group of the rendered output the records
\* appear in ascending record-number order, for every order in which the
\* findings occur in the input.
C16_RecordsAscending ==
    dpc = "done" =>
        \A g \in DOMAIN json_results :
            \A j, k \in DOMAIN json_results[g].records :
                j < k => json_results[g].records[j].record_no
                             < json_results[g].records[k].record_no

\* The finding tuples of the input: the rows of df with the severity of
\* their validation.
InputTuples ==
    [k \in DOMAIN df |->
        [validation_id |-> df[k].validation_id, record_no |-> df[k].record_no,
         uid |-> df[k].uid, field_name |-> df[k].field_name,
         field_value |-> df[k].field_value,
         severity |-> find_check(df[k].validation_id, Checks).severity]]

\* The finding tuples read back from a validation object: one per field of
\* each of its records.
RECURSIVE Flatten(_)
Flatten(seqs) == IF seqs = <<>> THEN <<>> ELSE Head(seqs) \o Flatten(Tail(seqs))

TuplesOfObject(obj) ==
    Flatten([r \in DOMAIN obj.records |->
                [f \in DOMAIN obj.records[r].fields |->
                    [validation_id |-> obj.validation.id,
                     record_no |-> obj.records[r].record_no,
                     uid |-> obj.records[r].uid,
                     field_name |-> obj.records[r].fields[f].name,
                     field_value |-> obj.records[r].fields[f].value,
                     severity |-> obj.validation.severity]]])

OutputTuples == Flatten([g \in DOMAIN json_results |-> TuplesOfObject(json_results[g])])

\* The number of times a tuple occurs in a sequence.
Occurrences(seq, t) == Cardinality({k \in DOMAIN seq : seq[k] = t})

\* The distinct-record counts of the groups of df add up to this.
TotalRecords ==
    LET ids == Ascending({IdIndex(id) : id \in GroupIds(df)})
    IN  Sum([k \in DOMAIN ids |-> Len(unique(Group(df, ValidationIds[ids[k]])))])

\* C20: round trip of the structured document: for a non-empty finding set
\* that is not truncated (the distinct-record counts sum to at most
\* max_records, no max_group_size), the multiset of (validation_id,
\* record_no, uid, field name, field value, severity) tuples read back from
\* the output of df_to_dicts equals the multiset of the input findings.
C20_RoundTrip ==
    /\ dpc = "done"
    /\ df # <<>>
    /\ max_group_size = None
    /\ TotalRecords <= max_records
    => \A t \in Range(InputTuples) \cup Range(OutputTuples) :
          Occurrences(OutputTuples, t) = Occurrences(InputTuples, t)

\* Three findings within budget: two fields of record 1 for one validation
\* and a field of record 0 for another, all read back.
C20_Witness ==
    /\ dpc = "done"
    /\ Len(df) = 3
    /\ max_group_size = None
    /\ TotalRecords = 2
    /\ max_records = 2
    /\ Len(Group(df, "W0002")) = 2
    /\ RecordsOf(Group(df, "W0002")) = {1}
    /\ RecordsOf(Group(df, "E0001")) = {0}
    /\ Len(OutputTuples) = 3

\* C24: max_group_size overrides the proportional allocation: whenever
\* df_to_dicts is called with a max_group_size, the cap of every validation
\* group is max_group_size, whatever max_records and the sizes of the groups.
C24_GroupSizeOverrides ==
    dpc \in {"map_groups", "done"} /\ max_group_size # None =>
        \A id \in GroupIds(df) : total_errors_per_group[id] = max_group_size[1]

\* The record numbers of a validation object.
RecordsOfObject(obj) == {obj.records[k].record_no : k \in DOMAIN obj.records}

\* C27: the truncation flag is accurate: for every validation object emitted
\* by df_to_dicts, is_truncated is true iff the group has more distinct
\* record numbers than its cap, which is iff a record of the group was
\* dropped; a group that keeps all its records is never flagged.
C27_TruncationFlag ==
    \A g \in DOMAIN json_results :
        LET obj == json_results[g]
            all == RecordsOf(Group(df, obj.validation.id))
        IN  /\ obj.validation.is_truncated
                  = (Cardinality(all) > total_errors_per_group[obj.validation.id])
            /\ obj.validation.is_truncated = (all \ RecordsOfObject(obj) # {})

\* A group of two records, one with two findings, under a cap of one: the
\* record with two findings is kept, the other is dropped and the object is
\* flagged.
C27_Witness ==
    /\ dpc = "done"
    /\ GroupIds(df) = {"E0001"}
    /\ Len(json_results) = 1
    /\ json_results[1].validation.is_truncated
    /\ total_errors_per_group["E0001"] = 1
    /\ Len(Group(df, "E0001")) = 3
    /\ RecordsOf(Group(df, "E0001")) = {0, 1}
    /\ RecordsOfObject(json_results[1]) = {0}
    /\ Len(json_results[1].records[1].fields) = 2

(***************************************************************************)
(* format_findings and df_to_download: the delimited-text report.          *)
(*                                                                         *)
(* A cell of the report frame is nullable: Null, or a one-element sequence *)
(* holding its value; validation_type holds a string.  The columns         *)
(* validation_name, fig_link and                                           *)
(* validation_description, constants of the validation id, are left out of *)
(* the rows.                                                               *)
(***************************************************************************)
MaxRenderRows == 5    \* findings of the group rendered both ways
MaxDownloadRows == 2  \* findings handed to df_to_download
MaxErrors == 1        \* warning_count, error_count, max_errors

Null == <<>>

Some(v) == <<v>>

NullPair == [name |-> Null, value |-> Null]

\* The (record_no, uid) index values of the pivot, in order of first
\* appearance in the group.
RECURSIVE PivotIndex(_, _)
PivotIndex(rows, seen) ==
    IF rows = <<>> THEN <<>>
    ELSE LET key == <<Head(rows).record_no, Head(rows).uid>>
         IN  IF key \in seen THEN PivotIndex(Tail(rows), seen)
             ELSE <<key>> \o PivotIndex(Tail(rows), seen \cup {key})

\* The rows of one index value, in group order: cumcount over (record_no,
\* uid) numbers them 1, 2, ...
RowsOfKey(group, key) ==
    LET OfKey(row) == <<row.record_no, row.uid>> = key
    IN  SelectSeq(group, OfKey)

\* The number of field_k columns of the pivot: the largest field_number.
PivotWidth(group) ==
    LET keys == PivotIndex(group, {})
        sizes == {Len(RowsOfKey(group, keys[k])) : k \in DOMAIN keys}
    IN  CHOOSE w \in sizes : \A x \in sizes : x <= w

\* group.pivot(index=[record_no, uid], columns=field_number,
\*             values=[field_name, field_value], aggregate_function="first")
pivot(group) ==
    LET keys == PivotIndex(group, {})
        width == PivotWidth(group)
    IN  [k \in DOMAIN keys |->
            LET mine == RowsOfKey(group, keys[k])
            IN  [record_no |-> keys[k][1],
                 uid |-> keys[k][2],
                 fields |-> [n \in 1..width |->
                                IF n <= Len(mine)
                                THEN [name |-> Some(mine[n].field_name),
                                      value |-> Some(mine[n].field_value)]
                                ELSE NullPair]]]

\* if len(field_columns) == 2: field_1/value_1 and field_2/value_2 exchanged
\* in every row of the group.
swap_two_columns(rows) ==
    [k \in DOMAIN rows |->
        IF Len(rows[k].fields) = 2
        THEN [rows[k] EXCEPT !.fields = <<@[2], @[1]>>]
        ELSE rows[k]]

\* The body of the loop over the groups: the report rows of one validation.
format_group(validation_id, group, checks) ==
    LET the_check == find_check(validation_id, checks)
        df_pivot == swap_two_columns(pivot(group))
    IN  [k \in DOMAIN df_pivot |->
            [validation_type |-> <<the_check.severity>>,
             validation_id |-> Some(validation_id),
             row |-> Some(df_pivot[k].record_no + 1),
             unique_identifier |-> Some(df_pivot[k].uid),
             fields |-> df_pivot[k].fields]]

FrameWidth(frame) == IF frame = <<>> THEN 0 ELSE Len(frame[1].fields)

Widen(frame, width) ==
    [k \in DOMAIN frame |->
        [frame[k] EXCEPT !.fields =
            [n \in 1..width |-> IF n <= Len(@) THEN @[n] ELSE NullPair]]]

\* pl.concat([a, b], how="diagonal"): the rows of a then those of b, over
\* the union of the columns, missing cells null.
concat_diagonal(a, b) ==
    LET width == IF FrameWidth(a) > FrameWidth(b) THEN FrameWidth(a) ELSE FrameWidth(b)
    IN  Widen(a, width) \o Widen(b, width)

\* The loop over the groups of the frame sorted by validation id (lexical),
\* group_by(maintain_order=True): the groups in ascending id order, the rows
\* of a group in the order of df.
RECURSIVE format_groups(_, _, _, _)
format_groups(frame, ids, checks, acc) ==
    IF ids = <<>> THEN acc
    ELSE format_groups(frame, Tail(ids), checks,
                       concat_diagonal(acc, format_group(Head(ids), Group(frame, Head(ids)),
                                                         checks)))

SortedIds(frame) ==
    LET idx == Ascending({IdIndex(id) : id \in GroupIds(frame)})
    IN  [k \in DOMAIN idx |-> ValidationIds[idx[k]]]

format_findings(frame, checks) == format_groups(frame, SortedIds(frame), checks, <<>>)

\* The header line returned for an empty frame: the seven fixed columns and,
\* after the trailing comma, an empty one.
EmptyReportHeader ==
    <<"validation_type", "validation_id", "validation_name", "row", "unique_identifier",
      "fig_link", "validation_description", "">>

\* The columns of the report frame: the seven fixed ones, then field_k and
\* value_k for every slot.
ReportColumns(width) ==
    <<<<"validation_type">>, <<"validation_id">>, <<"validation_name">>, <<"row">>,
      <<"unique_identifier">>, <<"fig_link">>, <<"validation_description">>>>
        \o [n \in 1..(2 * width) |->
               IF n % 2 = 1 THEN <<"field", (n + 1) \div 2>> ELSE <<"value", n \div 2>>]

\* The text of the overflow notice: the f-string of msg, total_errors and
\* max_errors formatted in decimal, error_type interpolated twice.
OverflowMessage(total_errors, error_type, cap) ==
    "Your register contains " \o ToString(total_errors) \o " " \o error_type
        \o ", however, only " \o ToString(cap)
        \o " records are displayed in this report. To see additional "
        \o error_type \o ", correct the listed records, and upload a new file."

\* error_type: "errors", "warnings" or "errors and warnings".
ErrorType(warnings, errors) ==
    IF warnings > 0
    THEN IF errors > 0 THEN "errors and warnings" ELSE "warnings"
    ELSE "errors"

\* msg_df: one row, the message in validation_type.
msg_df(warnings, errors, cap) ==
    <<[validation_type |-> <<OverflowMessage(warnings + errors,
                                             ErrorType(warnings, errors), cap)>>,
       validation_id |-> Null,
       row |-> Null,
       unique_identifier |-> Null,
       fields |-> <<>>]>>

\* The notice also when the total equals the cap.
over_or_at_max(total_errors, cap) == total_errors # 0 /\ total_errors >= cap

\* if total_errors and total_errors > max_errors
over_max(total_errors, cap) == total_errors # 0 /\ total_errors > cap

\* final_df.sink_csv(report_name, ...): the header, then the rows.
sink_csv(frame) == [header |-> ReportColumns(FrameWidth(frame)), rows |-> frame]

DownloadFrames == {d \in SeqsUpTo(Findings, MaxDownloadRows) :
                      \A j, k \in DOMAIN d : j # k => d[j] # d[k]}

InitDownload ==
    /\ df \in DownloadFrames
    /\ warning_count \in 0..MaxErrors
    /\ error_count \in 0..MaxErrors
    /\ max_errors \in 0..MaxErrors
    /\ final_df = <<>>
    /\ report = NoReport
    /\ wpc = "start"
    /\ max_group_size = None
    /\ total_errors_per_group = <<>>
    /\ truncated_group = <<>>
    /\ json_results = <<>>
    /\ todo = {}
    /\ group_order = <<>>
    /\ dpc = "none"
    /\ max_records = 0
    /\ NoCheck
    /\ NoAlloc

\* df.is_empty(): the header line is returned and nothing is written.
DownloadEmpty ==
    /\ wpc = "start"
    /\ is_empty(df)
    /\ report' = [returned |-> EmptyReportHeader, written |-> <<>>]
    /\ wpc' = "done"
    /\ UNCHANGED <<warning_count, error_count, max_errors, final_df, max_records>>
    /\ UNCHANGED check_vars
    /\ UNCHANGED alloc_vars
    /\ UNCHANGED dicts_vars

\* The loop over the validation groups.
DownloadFormat ==
    /\ wpc = "start"
    /\ ~is_empty(df)
    /\ final_df' = format_findings(df, Checks)
    /\ wpc' = "formatted"
    /\ UNCHANGED <<warning_count, error_count, max_errors, report, max_records>>
    /\ UNCHANGED check_vars
    /\ UNCHANGED alloc_vars
    /\ UNCHANGED dicts_vars

\* The over-max message is put before the rows.
DownloadOverflowNotice ==
    /\ wpc = "formatted"
    /\ over_max(warning_count + error_count, max_errors)
    /\ final_df' = concat_diagonal(msg_df(warning_count, error_count, max_errors), final_df)
    /\ wpc' = "noticed"
    /\ UNCHANGED <<warning_count, error_count, max_errors, report, max_records>>
    /\ UNCHANGED check_vars
    /\ UNCHANGED alloc_vars
    /\ UNCHANGED dicts_vars

\* The frame is written to the report file.
DownloadSinkCsv ==
    /\ \/ wpc = "formatted" /\ ~over_max(warning_count + error_count, max_errors)
       \/ wpc = "noticed"
    /\ report' = [returned |-> <<>>, written |-> sink_csv(final_df)]
    /\ wpc' = "done"
    /\ UNCHANGED <<warning_count, error_count, max_errors, final_df, max_records>>
    /\ UNCHANGED check_vars
    /\ UNCHANGED alloc_vars
    /\ UNCHANGED dicts_vars

NextDownload ==
    \/ DownloadEmpty
    \/ DownloadFormat
    \/ DownloadOverflowNotice
    \/ DownloadSinkCsv

SpecDownload == InitDownload /\ [][NextDownload]_vars

\* A call of df_to_dicts or a call of df_to_download.
SpecOutputs == (InitDicts \/ InitDownload) /\ [][NextDicts \/ NextDownload]_vars

\* The rows of the written report that carry no validation id.
NoticeRows == {k \in DOMAIN report.written.rows : report.written.rows[k].validation_id = Null}

\* C22: df_to_download on a non-empty finding set adds the overflow-notice
\* row iff warning_count + error_count is strictly greater than max_errors;
\* when added it is the first row, before every finding row, with the
\* message in validation_type and no field data.
C22_OverflowNotice ==
    wpc = "done" /\ df # <<>> =>
        /\ (NoticeRows # {}) = (warning_count + error_count > max_errors)
        /\ NoticeRows # {} =>
              /\ NoticeRows = {1}
              /\ report.written.rows[1].validation_type =
                     <<OverflowMessage(warning_count + error_count,
                                       ErrorType(warning_count, error_count), max_errors)>>
              /\ \A n \in DOMAIN report.written.rows[1].fields :
                     report.written.rows[1].fields[n] = NullPair
              /\ Len(report.written.rows) = 1 + Len(format_findings(df, Checks))

\* Two findings of two validations, two errors counted and a cap of one: the
\* notice is the first of three rows.
C22_Witness ==
    /\ wpc = "done"
    /\ Len(df) = 2
    /\ GroupIds(df) = {"E0001", "W0002"}
    /\ warning_count = 1
    /\ error_count = 1
    /\ max_errors = 1
    /\ Len(report.written.rows) = 3
    /\ NoticeRows = {1}
    /\ report.written.rows[1].validation_type =
           <<"Your register contains 2 errors and warnings, however, only 1 records are displayed in this report. To see additional errors and warnings, correct the listed records, and upload a new file.">>

\* C23: on an empty finding set df_to_download produces only the header line
\* and no data row, and df_to_dicts returns an empty list, for every value
\* of the counts and caps passed in.
C23_EmptyFindingSet ==
    /\ wpc = "done" /\ df = <<>> =>
          report = [returned |-> EmptyReportHeader, written |-> <<>>]
    /\ dpc = "done" /\ df = <<>> => json_results = <<>>

\* The empty finding set with counts above the cap: the header line alone.
C23_Witness ==
    /\ wpc = "done"
    /\ df = <<>>
    /\ warning_count = 1
    /\ error_count = 1
    /\ max_errors = 0
    /\ report.returned = EmptyReportHeader
    /\ report.written = <<>>

\* The findings of one validation over two records and three fields.
RenderFieldNames == {"field_a", "field_b", "field_c"}

RenderFindings ==
    {[validation_id |-> "E0001", record_no |-> r, uid |-> <<"uid", r>>,
      field_name |-> f, field_value |-> <<"value", r, f>>] :
        r \in 0..1, f \in RenderFieldNames}

RenderFrames == {d \in SeqsUpTo(RenderFindings, MaxRenderRows) :
                    \A j, k \in DOMAIN d : j # k => d[j] # d[k]}

\* One group of findings rendered by process_chunk and by format_findings.
InitRender ==
    /\ df \in RenderFrames
    /\ max_group_size = None
    /\ total_errors_per_group = <<>>
    /\ truncated_group = <<>>
    /\ json_results = <<>>
    /\ todo = {}
    /\ group_order = <<>>
    /\ dpc = "chunk"
    /\ warning_count = 0
    /\ error_count = 0
    /\ max_errors = 0
    /\ final_df = <<>>
    /\ report = NoReport
    /\ wpc = "format"
    /\ max_records = 0
    /\ NoCheck
    /\ NoAlloc

RenderProcessChunk ==
    /\ dpc = "chunk"
    /\ json_results' = process_chunk(df, "E0001", find_check("E0001", Checks))
    /\ dpc' = "done"
    /\ UNCHANGED <<df, max_group_size, total_errors_per_group, truncated_group, todo,
                   group_order, max_records>>
    /\ UNCHANGED check_vars
    /\ UNCHANGED alloc_vars
    /\ UNCHANGED download_vars

RenderFormatFindings ==
    /\ wpc = "format"
    /\ final_df' = format_findings(df, Checks)
    /\ wpc' = "done"
    /\ UNCHANGED <<warning_count, error_count, max_errors, report, max_records>>
    /\ UNCHANGED check_vars
    /\ UNCHANGED alloc_vars
    /\ UNCHANGED dicts_vars

NextRender ==
    \/ RenderProcessChunk
    \/ RenderFormatFindings

SpecRender == InitRender /\ [][NextRender]_vars

\* The field/value pairs of a record in the order of the input rows.
InputPairs(record_no) ==
    LET OfRecord(row) == row.record_no = record_no
        mine == SelectSeq(df, OfRecord)
    IN  [k \in DOMAIN mine |-> [name |-> mine[k].field_name, value |-> mine[k].field_value]]

\* C21: process_chunk emits every record that has exactly two field/value
\* pairs with the two pairs in the reverse of their input order, and records
\* with any other number of pairs in input order.
C21_TwoFieldSwap ==
    dpc = "done" /\ df # <<>> =>
        \A k \in DOMAIN json_results[1].records :
            LET record == json_results[1].records[k]
                pairs == InputPairs(record.record_no)
            IN  record.fields = IF Len(pairs) = 2 THEN <<pairs[2], pairs[1]>> ELSE pairs

\* A record with two pairs, emitted reversed, and a record with three,
\* emitted in input order.
C21_Witness ==
    /\ dpc = "done"
    /\ Len(df) = 5
    /\ Len(InputPairs(0)) = 2
    /\ Len(InputPairs(1)) = 3
    /\ \E k \in DOMAIN json_results[1].records :
          /\ json_results[1].records[k].record_no = 0
          /\ json_results[1].records[k].fields = <<InputPairs(0)[2], InputPairs(0)[1]>>
    /\ \E k \in DOMAIN json_results[1].records :
          /\ json_results[1].records[k].record_no = 1
          /\ json_results[1].records[k].fields = InputPairs(1)

\* The field/value pairs a report row presents: its non-null slots in order.
PresentPairs(row) ==
    LET NotNull(pair) == pair # NullPair
        present == SelectSeq(row.fields, NotNull)
    IN  [k \in DOMAIN present |-> [name |-> present[k].name[1], value |-> present[k].value[1]]]

\* C30: the two renderings agree on field order: for the same finding set
\* the delimited-text rendering and the structured-document rendering
\* present the field/value pairs of every record in the same order, also in
\* groups whose records have different numbers of fields.
C30_RenderingsAgree ==
    dpc = "done" /\ wpc = "done" /\ df # <<>> =>
        \A k \in DOMAIN json_results[1].records :
            \E r \in DOMAIN final_df :
                /\ final_df[r].row = Some(json_results[1].records[k].record_no + 1)
                /\ PresentPairs(final_df[r]) = json_results[1].records[k].fields

====
